---- MODULE Spec2Model ----
(***************************************************************************)
(* Model of src/Etat_de_l_art.py: the literature-review generator built on *)
(* Semantic Scholar and a generative model (Streamlit application).        *)
(*                                                                         *)
(* Text is modelled as a sequence of tokens.  The token " " is a           *)
(* whitespace character, "," is a comma, every other token is a chunk of   *)
(* non-whitespace, non-comma characters.  A string literal of the source   *)
(* is one such chunk.  The empty sequence is the empty string.             *)
(* A JSON field is an option: None stands for a missing key and for null   *)
(* (dict.get gives a falsy value for both).                                *)
(***************************************************************************)
EXTENDS Integers, Sequences, FiniteSets, TLC

VARIABLES
    papers,        \* st.session_state.papers
    question,      \* st.session_state.question
    search_done,   \* st.session_state.search_done
    searched,      \* history: the question of the search that stored papers
    unchecked,     \* indices i whose checkbox "select_i" is unticked
    ui,            \* what the last run of main() rendered
    log,           \* the calls made by the last run of main(), in order
    fn,            \* unit harness: the function under test
    arg,           \* unit harness: its inputs
    ret            \* unit harness: its result

vars == <<papers, question, search_done, searched, unchecked, ui, log, fn, arg, ret>>

appVars == <<papers, question, search_done, searched, unchecked, ui, log>>
unitVars == <<fn, arg, ret>>

----------------------------------------------------------------------------
(* Bounds of the model *)

MaxKwLen == 6        \* longest generated keyword response, in tokens
MaxFieldLen == 2     \* longest abstract of a publication, in tokens
MaxPapers == 2       \* longest search result

(* Constants of the program *)

MaxKeywords == 5          \* keywords[:5]
AbstractPromptLen == 1000 \* abstract[:1000]
AbstractFallbackLen == 300 \* abstract[:300]
ReviewAbstractLen == 800  \* abstract[:800], summary[:800]

----------------------------------------------------------------------------
(* Python values *)

None == [some |-> FALSE, val |-> <<>>]
Some(v) == [some |-> TRUE, val |-> v]

Min(a, b) == IF a <= b THEN a ELSE b

IsSpace(c) == c = " "

\* s[:n]
Take(s, n) == SubSeq(s, 1, Min(n, Len(s)))

RECURSIVE LStrip(_)
LStrip(s) ==
    IF s # <<>> /\ IsSpace(Head(s)) THEN LStrip(Tail(s)) ELSE s

RECURSIVE RStrip(_)
RStrip(s) ==
    IF s # <<>> /\ IsSpace(s[Len(s)]) THEN RStrip(SubSeq(s, 1, Len(s) - 1)) ELSE s

\* str.strip()
Strip(s) == RStrip(LStrip(s))

\* the least index of a comma in s, 0 when there is none
FirstComma(s) ==
    IF \E i \in 1..Len(s) : s[i] = ","
    THEN CHOOSE i \in 1..Len(s) : s[i] = "," /\ \A j \in 1..(i - 1) : s[j] # ","
    ELSE 0

\* str.split(',')
RECURSIVE Split(_)
Split(s) ==
    IF FirstComma(s) = 0
    THEN <<s>>
    ELSE <<SubSeq(s, 1, FirstComma(s) - 1)>> \o Split(SubSeq(s, FirstComma(s) + 1, Len(s)))

\* sep.join(items)
RECURSIVE Join(_, _)
Join(items, sep) ==
    IF items = <<>> THEN <<>>
    ELSE IF Len(items) = 1 THEN items[1]
    ELSE items[1] \o sep \o Join(Tail(items), sep)

\* ''.join(parts)
RECURSIVE Concat(_)
Concat(parts) ==
    IF parts = <<>> THEN <<>> ELSE Head(parts) \o Concat(Tail(parts))

\* [f(x) for x in items], for f = Strip
RECURSIVE StripAll(_)
StripAll(items) ==
    IF items = <<>> THEN <<>> ELSE <<Strip(Head(items))>> \o StripAll(Tail(items))

\* all sequences over S of length at most n
RECURSIVE SeqsUpTo(_, _)
SeqsUpTo(S, n) ==
    IF n = 0 THEN {<<>>}
    ELSE SeqsUpTo(S, n - 1) \cup
         {Append(s, x) : s \in {t \in SeqsUpTo(S, n - 1) : Len(t) = n - 1}, x \in S}

----------------------------------------------------------------------------
(* LLMProvider.generate *)

\* What the backend does with one generate_content request:
\*   text    the response has a .text
\*   parts   the response has no .text but has .parts
\*   noattr  the response has neither
\*   raise   generate_content (or reading the response) raises
BackendText(t) == [kind |-> "text", text |-> t, parts |-> <<>>]
BackendParts(p) == [kind |-> "parts", text |-> <<>>, parts |-> p]
BackendNoAttr == [kind |-> "noattr", text |-> <<>>, parts |-> <<>>]
BackendRaise == [kind |-> "raise", text |-> <<>>, parts |-> <<>>]

\* LLMProvider.generate: the text returned for a backend outcome
Generate(o) ==
    CASE o.kind = "text" -> o.text
      [] o.kind = "parts" -> Concat(o.parts)
      [] o.kind = "noattr" -> <<>>
      [] o.kind = "raise" -> <<>>

\* One call llm.generate(prompt) as its caller sees it.  An outcome of kind
\* "escape" is an error that leaves generate (raised inside its own handler);
\* every other outcome returns Generate's text.
LlmCall(o) ==
    IF o.kind = "escape"
    THEN [raised |-> TRUE, text |-> <<>>]
    ELSE [raised |-> FALSE, text |-> Generate(o)]

BackendEscape == [kind |-> "escape", text |-> <<>>, parts |-> <<>>]

----------------------------------------------------------------------------
(* SemanticScholarAPI.extract_keywords *)

ExtractKeywordsNoLimit(q, call) ==
    IF call.raised THEN <<q>>
    ELSE IF call.text = <<>> \/ Strip(call.text) = <<>> THEN <<q>>
    ELSE StripAll(Split(call.text))

ExtractKeywords(q, call) ==
    IF call.raised
    THEN <<q>>                                 \* except Exception: return [question]
    ELSE IF call.text = <<>> \/ Strip(call.text) = <<>>
    THEN <<q>>                                 \* fallback on an empty response
    ELSE Take(StripAll(Split(call.text)), MaxKeywords)

----------------------------------------------------------------------------
(* Publication: one element of the search response's 'data' *)

NoDict == [some |-> FALSE, text |-> None]     \* tldr / openAccessPdf missing or null
Dict(t) == [some |-> TRUE, text |-> t]        \* {'text': t} resp. {'url': t}

Paper(id, abstract, tldr, oa, url) ==
    [paperId |-> Some(<<id>>), title |-> <<id>>, abstract |-> abstract, tldr |-> tldr,
     openAccessPdf |-> oa, url |-> url, summary |-> None]

\* Python truthiness of an optional string
Truthy(x) == x.some /\ x.val # <<>>

\* abstract and abstract.strip()
HasAbstract(paper) == Truthy(paper.abstract) /\ Strip(paper.abstract.val) # <<>>

\* tldr and tldr.get('text')
HasTldr(paper) == paper.tldr.some /\ Truthy(paper.tldr.text)

\* open_access and open_access.get('url')
HasOpenAccess(paper) == paper.openAccessPdf.some /\ Truthy(paper.openAccessPdf.text)

\* paper.get('url', '') is truthy
HasUrl(paper) == Truthy(paper.url)

----------------------------------------------------------------------------
(* LiteratureReviewGenerator.summarize_paper *)

Ellipsis == <<"...">>
MsgPdfAvailable == <<"Resume non disponible dans l'API. PDF Open Access disponible a: ">>
MsgSeeArticle == <<"Resume non disponible. Consultez l'article complet: ">>
MsgNoSummary == <<"Resume non disponible pour cet article.">>

SummarizePrompt(paper) ==
    [kind |-> "summarize", title |-> paper.title,
     body |-> Take(paper.abstract.val, AbstractPromptLen)]

ReformulatePrompt(paper) ==
    [kind |-> "reformulate", title |-> paper.title, body |-> paper.tldr.text.val]

Returned(t, prompts) == [raised |-> FALSE, text |-> t, prompts |-> prompts]
Raised(prompts) == [raised |-> TRUE, text |-> <<>>, prompts |-> prompts]

\* a generated summary is kept when: summary and summary.strip()
Usable(t) == t # <<>> /\ Strip(t) # <<>>

SummarizePaperUrlFirst(paper, o) ==
    IF HasAbstract(paper)
    THEN IF LlmCall(o).raised THEN Raised(<<SummarizePrompt(paper)>>)
         ELSE IF Usable(LlmCall(o).text)
         THEN Returned(LlmCall(o).text, <<SummarizePrompt(paper)>>)
         ELSE Returned(Take(paper.abstract.val, AbstractFallbackLen) \o Ellipsis,
                       <<SummarizePrompt(paper)>>)
    ELSE IF HasTldr(paper)
    THEN IF LlmCall(o).raised THEN Raised(<<ReformulatePrompt(paper)>>)
         ELSE IF Usable(LlmCall(o).text)
         THEN Returned(LlmCall(o).text, <<ReformulatePrompt(paper)>>)
         ELSE Returned(paper.tldr.text.val, <<ReformulatePrompt(paper)>>)
    ELSE IF HasUrl(paper)
    THEN Returned(MsgSeeArticle \o paper.url.val, <<>>)
    ELSE IF HasOpenAccess(paper)
    THEN Returned(MsgPdfAvailable \o paper.openAccessPdf.text.val, <<>>)
    ELSE Returned(MsgNoSummary, <<>>)

SummarizePaperNoFallback(paper, o) ==
    IF HasAbstract(paper)
    THEN IF LlmCall(o).raised THEN Raised(<<SummarizePrompt(paper)>>)
         ELSE Returned(LlmCall(o).text, <<SummarizePrompt(paper)>>)
    ELSE IF HasTldr(paper)
    THEN IF LlmCall(o).raised THEN Raised(<<ReformulatePrompt(paper)>>)
         ELSE Returned(LlmCall(o).text, <<ReformulatePrompt(paper)>>)
    ELSE IF HasOpenAccess(paper)
    THEN Returned(MsgPdfAvailable \o paper.openAccessPdf.text.val, <<>>)
    ELSE IF HasUrl(paper)
    THEN Returned(MsgSeeArticle \o paper.url.val, <<>>)
    ELSE Returned(MsgNoSummary, <<>>)

SummarizePaperAlwaysGenerates(paper, o) ==
    IF LlmCall(o).raised THEN Raised(<<SummarizePrompt(paper)>>)
    ELSE IF Usable(LlmCall(o).text)
    THEN Returned(LlmCall(o).text, <<SummarizePrompt(paper)>>)
    ELSE IF HasAbstract(paper)
    THEN Returned(Take(paper.abstract.val, AbstractFallbackLen) \o Ellipsis,
                  <<SummarizePrompt(paper)>>)
    ELSE IF HasTldr(paper)
    THEN Returned(paper.tldr.text.val, <<SummarizePrompt(paper)>>)
    ELSE IF HasOpenAccess(paper)
    THEN Returned(MsgPdfAvailable \o paper.openAccessPdf.text.val, <<SummarizePrompt(paper)>>)
    ELSE IF HasUrl(paper)
    THEN Returned(MsgSeeArticle \o paper.url.val, <<SummarizePrompt(paper)>>)
    ELSE Returned(MsgNoSummary, <<SummarizePrompt(paper)>>)

\* summarize_paper(paper): the text returned (or the error raised) and the
\* prompts sent to the generative model, o being the backend's outcome for
\* the one request a branch may make.
SummarizePaper(paper, o) ==
    IF HasAbstract(paper)
    THEN \* 1. the abstract
         IF LlmCall(o).raised THEN Raised(<<SummarizePrompt(paper)>>)
         ELSE IF Usable(LlmCall(o).text)
         THEN Returned(LlmCall(o).text, <<SummarizePrompt(paper)>>)
         ELSE Returned(Take(paper.abstract.val, AbstractFallbackLen) \o Ellipsis,
                       <<SummarizePrompt(paper)>>)
    ELSE IF HasTldr(paper)
    THEN \* 2. the TLDR of the search response
         IF LlmCall(o).raised THEN Raised(<<ReformulatePrompt(paper)>>)
         ELSE IF Usable(LlmCall(o).text)
         THEN Returned(LlmCall(o).text, <<ReformulatePrompt(paper)>>)
         ELSE Returned(paper.tldr.text.val, <<ReformulatePrompt(paper)>>)
    ELSE IF HasOpenAccess(paper)
    THEN \* 3. the open-access PDF
         Returned(MsgPdfAvailable \o paper.openAccessPdf.text.val, <<>>)
    ELSE IF HasUrl(paper)
    THEN \* 4. the article's URL
         Returned(MsgSeeArticle \o paper.url.val, <<>>)
    ELSE Returned(MsgNoSummary, <<>>)

----------------------------------------------------------------------------
(* SemanticScholarAPI.get_paper_details, fetch_paper_content *)

\* What the detail request does: "ok" with the details' tldr and
\* openAccessPdf, "empty" an empty JSON object, "error" a RequestException.
DetailsOk(tldr, oa) == [kind |-> "ok", tldr |-> tldr, openAccessPdf |-> oa]
DetailsEmpty == [kind |-> "empty", tldr |-> NoDict, openAccessPdf |-> NoDict]
DetailsError == [kind |-> "error", tldr |-> NoDict, openAccessPdf |-> NoDict]

\* get_paper_details: Some(details) or None; `truthy` is Python's truth
\* value of the returned dict
GetPaperDetails(d) ==
    IF d.kind = "error"
    THEN [some |-> FALSE, truthy |-> FALSE, tldr |-> NoDict, openAccessPdf |-> NoDict]
    ELSE [some |-> TRUE, truthy |-> d.kind = "ok", tldr |-> d.tldr,
          openAccessPdf |-> d.openAccessPdf]

MsgPdfAt == <<"PDF disponible a: ">>

FetchPaperContentPlaceholder(paper, d) ==
    IF ~Truthy(paper.paperId) THEN Some(MsgNoSummary)
    ELSE IF ~(GetPaperDetails(d).some /\ GetPaperDetails(d).truthy)
    THEN Some(MsgNoSummary)
    ELSE IF GetPaperDetails(d).tldr.some /\ Truthy(GetPaperDetails(d).tldr.text)
    THEN Some(GetPaperDetails(d).tldr.text.val)
    ELSE IF GetPaperDetails(d).openAccessPdf.some
            /\ Truthy(GetPaperDetails(d).openAccessPdf.text)
    THEN Some(MsgPdfAt \o GetPaperDetails(d).openAccessPdf.text.val)
    ELSE Some(MsgNoSummary)

\* fetch_paper_content(paper): Optional[str]
FetchPaperContent(paper, d) ==
    IF ~Truthy(paper.paperId) THEN None                \* if not paper_id
    ELSE IF ~(GetPaperDetails(d).some /\ GetPaperDetails(d).truthy)
    THEN None                                          \* if not details
    ELSE IF GetPaperDetails(d).tldr.some /\ Truthy(GetPaperDetails(d).tldr.text)
    THEN Some(GetPaperDetails(d).tldr.text.val)
    ELSE IF GetPaperDetails(d).openAccessPdf.some
            /\ Truthy(GetPaperDetails(d).openAccessPdf.text)
    THEN Some(MsgPdfAt \o GetPaperDetails(d).openAccessPdf.text.val)
    ELSE None

----------------------------------------------------------------------------
(* LiteratureReviewGenerator.generate_full_review *)

Sections == {"INTRODUCTION", "TRAVAUX EXISTANTS", "LIMITATIONS", "PERSPECTIVES"}

ErrGeneration ==
    <<"Erreur lors de la generation. Veuillez reessayer ou changer de modele LLM.">>
NotAvailable == <<"Non disponible">>

\* the text given for one article: abstract[:800], else the TLDR, else the
\* summary computed by summarize_paper
Description(paper) ==
    IF HasAbstract(paper) THEN Take(paper.abstract.val, ReviewAbstractLen)
    ELSE IF HasTldr(paper) THEN paper.tldr.text.val
    ELSE Take(IF paper.summary.some THEN paper.summary.val ELSE NotAvailable,
              ReviewAbstractLen)

RECURSIVE Descriptions(_)
Descriptions(list) ==
    IF list = <<>> THEN <<>> ELSE <<Description(Head(list))>> \o Descriptions(Tail(list))

ReviewPrompt(list, q) == [kind |-> "review", title |-> q, body |-> Descriptions(list)]

GenerateFullReviewUnchecked(list, q, o) ==
    IF LlmCall(o).raised THEN Raised(<<ReviewPrompt(list, q)>>)
    ELSE Returned(LlmCall(o).text, <<ReviewPrompt(list, q)>>)

GenerateFullReviewChecksSections(list, q, o) ==
    IF LlmCall(o).raised THEN Raised(<<ReviewPrompt(list, q)>>)
    ELSE IF \E sec \in Sections : \A i \in 1..Len(LlmCall(o).text) : LlmCall(o).text[i] # sec
    THEN Returned(ErrGeneration, <<ReviewPrompt(list, q)>>)
    ELSE Returned(LlmCall(o).text, <<ReviewPrompt(list, q)>>)

\* generate_full_review(papers, question)
GenerateFullReview(list, q, o) ==
    IF LlmCall(o).raised THEN Raised(<<ReviewPrompt(list, q)>>)
    ELSE IF LlmCall(o).text = <<>> \/ Strip(LlmCall(o).text) = <<>>
    THEN Returned(ErrGeneration, <<ReviewPrompt(list, q)>>)
    ELSE Returned(LlmCall(o).text, <<ReviewPrompt(list, q)>>)

----------------------------------------------------------------------------
(* SemanticScholarAPI.search_papers *)

\* What the search request does: "ok" a 2xx response whose JSON holds `data`
\* when hasData, "http429" and "http_error" an HTTPError raised by
\* raise_for_status, "transport" another RequestException.
SearchOk(list) == [kind |-> "ok", hasData |-> TRUE, data |-> list]
SearchNoData == [kind |-> "ok", hasData |-> FALSE, data |-> <<>>]
SearchFail(k) == [kind |-> k, hasData |-> FALSE, data |-> <<>>]

SearchFailures == {SearchFail("http429"), SearchFail("http_error"), SearchFail("transport")}

SearchPapersRetries(s) ==
    CASE s.kind = "ok" ->
            [papers |-> IF s.hasData THEN s.data ELSE <<>>, messages |-> {"info_api_key"}]
      [] s.kind = "http429" ->
            [papers |-> <<Paper("R", None, NoDict, NoDict, None)>>,
             messages |-> {"err_rate_limit", "info_rate_limit"}]
      [] s.kind = "http_error" ->
            [papers |-> <<>>, messages |-> {"err_api"}]
      [] s.kind = "transport" ->
            [papers |-> <<>>, messages |-> {"err_api"}]

\* search_papers(query, limit): the list returned and the messages shown.
\* The query and the limit go to the service, whose answer s is the
\* environment's choice; results are shorter than the least limit (5).
SearchPapers(s) ==
    CASE s.kind = "ok" ->
            [papers |-> IF s.hasData THEN s.data ELSE <<>>, messages |-> {"info_api_key"}]
      [] s.kind = "http429" ->
            [papers |-> <<>>, messages |-> {"err_rate_limit", "info_rate_limit"}]
      [] s.kind = "http_error" ->
            [papers |-> <<>>, messages |-> {"err_api"}]
      [] s.kind = "transport" ->
            [papers |-> <<>>, messages |-> {"err_api"}]

----------------------------------------------------------------------------
(* main: one run of the Streamlit script, past authentication and with the  *)
(* Gemini key entered                                                       *)

\* one call of a run: n is a count (the papers passed or returned, the index
\* of the paper), out the text passed or returned (None for an error raised)
Event(op, n, out) == [op |-> op, n |-> n, out |-> out]

\* the call llm.generate(prompt) answered by the backend outcome o
LlmEvent(o) ==
    Event("llm.generate", 0, IF LlmCall(o).raised THEN None ELSE Some(LlmCall(o).text))

MsgSummaryError == <<"Erreur de generation. Consultez l'article: ">>
UrlNotAvailable == <<"URL non disponible">>

\* the messages LLMProvider.generate shows for a backend outcome
LlmMessages(o) ==
    CASE o.kind = "noattr" -> {"err_llm_blocked"}
      [] o.kind = "raise" -> {"err_llm"}
      [] OTHER -> {}

\* the messages of extract_keywords
KeywordMessages(o) ==
    IF LlmCall(o).raised THEN {"err_keywords"}
    ELSE LlmMessages(o) \cup
         (IF LlmCall(o).text = <<>> \/ Strip(LlmCall(o).text) = <<>>
          THEN {"warn_keywords"} ELSE {})

\* the papers of the list for which summarize_paper asks the backend
Prompted(list) == {i \in 1..Len(list) : HasAbstract(list[i]) \/ HasTldr(list[i])}

\* a loop without the handler of lines 540-542: the first raised error ends it
RECURSIVE SummarizeFromAborts(_, _, _)
SummarizeFromAborts(list, outs, i) ==
    IF i > Len(list)
    THEN [papers |-> <<>>, log |-> <<>>, messages |-> {}]
    ELSE LET o == IF i \in DOMAIN outs THEN outs[i] ELSE BackendNoAttr
             r == SummarizePaper(list[i], o)
             rest == IF r.raised
                     THEN [papers |-> <<>>, log |-> <<>>, messages |-> {}]
                     ELSE SummarizeFromAborts(list, outs, i + 1)
         IN [papers |-> (IF r.raised THEN <<>>
                         ELSE <<[list[i] EXCEPT !.summary = Some(r.text)]>>)
                        \o rest.papers,
             log |-> (IF i > 1 THEN <<Event("sleep", i, None)>> ELSE <<>>)
                     \o (IF r.prompts # <<>> THEN <<LlmEvent(o)>> ELSE <<>>)
                     \o <<Event("summarize_paper", i,
                                IF r.raised THEN None ELSE Some(r.text))>>
                     \o rest.log,
             messages |-> (IF r.prompts # <<>> THEN LlmMessages(o) ELSE {})
                          \cup rest.messages]

\* a loop that pauses before every publication, the first included
RECURSIVE SummarizeFromAlwaysSleeps(_, _, _)
SummarizeFromAlwaysSleeps(list, outs, i) ==
    IF i > Len(list)
    THEN [papers |-> <<>>, log |-> <<>>, messages |-> {}]
    ELSE LET o == IF i \in DOMAIN outs THEN outs[i] ELSE BackendNoAttr
             r == SummarizePaper(list[i], o)
             summary == IF r.raised
                        THEN MsgSummaryError \o
                             (IF list[i].url.some THEN list[i].url.val ELSE UrlNotAvailable)
                        ELSE r.text
             rest == SummarizeFromAlwaysSleeps(list, outs, i + 1)
         IN [papers |-> <<[list[i] EXCEPT !.summary = Some(summary)]>> \o rest.papers,
             log |-> <<Event("sleep", i, None)>>
                     \o (IF r.prompts # <<>> THEN <<LlmEvent(o)>> ELSE <<>>)
                     \o <<Event("summarize_paper", i,
                                IF r.raised THEN None ELSE Some(r.text))>>
                     \o rest.log,
             messages |-> (IF r.raised THEN {"warn_summary"} ELSE {})
                          \cup (IF r.prompts # <<>> THEN LlmMessages(o) ELSE {})
                          \cup rest.messages]

\* the summarization loop over papers[i..]: the papers with their summary,
\* the calls made and the messages shown
RECURSIVE SummarizeFrom(_, _, _)
SummarizeFrom(list, outs, i) ==
    IF i > Len(list)
    THEN [papers |-> <<>>, log |-> <<>>, messages |-> {}]
    ELSE LET o == IF i \in DOMAIN outs THEN outs[i] ELSE BackendNoAttr
             r == SummarizePaper(list[i], o)
             summary == IF r.raised
                        THEN MsgSummaryError \o
                             (IF list[i].url.some THEN list[i].url.val ELSE UrlNotAvailable)
                        ELSE r.text
             rest == SummarizeFrom(list, outs, i + 1)
         IN [papers |-> <<[list[i] EXCEPT !.summary = Some(summary)]>> \o rest.papers,
             log |-> (IF i > 1 THEN <<Event("sleep", i, None)>> ELSE <<>>)
                     \o (IF r.prompts # <<>> THEN <<LlmEvent(o)>> ELSE <<>>)
                     \o <<Event("summarize_paper", i,
                                IF r.raised THEN None ELSE Some(r.text))>>
                     \o rest.log,
             messages |-> (IF r.raised THEN {"warn_summary"} ELSE {})
                          \cup (IF r.prompts # <<>> THEN LlmMessages(o) ELSE {})
                          \cup rest.messages]

\* the papers whose checkbox select_{i-1} is ticked, in order
RECURSIVE SelectFrom(_, _, _)
SelectFrom(list, unch, i) ==
    IF i > Len(list) THEN <<>>
    ELSE (IF (i - 1) \in unch THEN <<>> ELSE <<list[i]>>) \o SelectFrom(list, unch, i + 1)

\* the checkbox values a run leaves: a checkbox keeps its value from one run
\* to the next while it is rendered, and is ticked when first rendered
Checkboxes(wasShown, unch, isShown, n) ==
    IF isShown /\ wasShown THEN unch \cap (0..(n - 1)) ELSE {}

Hidden ==
    [display |-> FALSE, genBtn |-> "absent", shown |-> None, messages |-> {},
     review |-> None, download |-> None, log |-> <<>>]

Listed(q, btn, msgs, review, download, evs) ==
    [display |-> TRUE, genBtn |-> btn,
     shown |-> Some(q), messages |-> msgs, review |-> review, download |-> download,
     log |-> evs]

ShowResultsNoGuard(list, q, done, unch, clicked, o) ==
    IF ~(done /\ list # <<>>) THEN Hidden
    ELSE LET sel == SelectFrom(list, unch, 1)
             r == GenerateFullReview(sel, q, o)
             call == <<LlmEvent(o),
                       Event("generate_full_review", Len(sel),
                             IF r.raised THEN None ELSE Some(r.text))>>
         IN  IF ~clicked THEN Listed(q, "enabled", {}, None, None, <<>>)
             ELSE IF r.raised
             THEN Listed(q, "enabled", {"err_generation_exc", "info_generation"},
                         None, None, call)
             ELSE Listed(q, "enabled", {"ok_review"}, Some(r.text), Some(r.text), call)

\* lines 550-628: the list of articles, the selection and the generation of
\* the review; clicked: the "Generer" button was pressed, o: the backend's
\* outcome for the review request
ShowResults(list, q, done, unch, clicked, o) ==
    IF ~(done /\ list # <<>>) THEN Hidden
    ELSE LET sel == SelectFrom(list, unch, 1)
             btn == IF Len(sel) = 0 THEN "disabled" ELSE "enabled"
             r == GenerateFullReview(sel, q, o)
             call == <<LlmEvent(o),
                       Event("generate_full_review", Len(sel),
                             IF r.raised THEN None ELSE Some(r.text))>>
             failed == IF r.text = ErrGeneration /\ ~Usable(LlmCall(o).text)
                       THEN {"err_review_failed"} ELSE {}
         IN  IF ~clicked THEN Listed(q, btn, {}, None, None, <<>>)
             ELSE IF Len(sel) = 0 THEN Listed(q, btn, {"warn_select"}, None, None, <<>>)
             ELSE IF r.raised
             THEN Listed(q, btn, {"err_generation_exc", "info_generation"}, None, None, call)
             ELSE IF r.text # <<>> /\ Strip(r.text) # <<>>
             THEN Listed(q, btn, LlmMessages(o) \cup failed \cup {"ok_review"},
                         Some(r.text), Some(r.text), call)
             ELSE Listed(q, btn, LlmMessages(o) \cup failed \cup {"err_generation"},
                         None, None, call)

Ui(newSearch, kw, msgs, res) ==
    [newSearch |-> newSearch, keywords |-> kw, display |-> res.display,
     genBtn |-> res.genBtn, shown |-> res.shown, messages |-> msgs \cup res.messages,
     review |-> res.review, download |-> res.download]

----------------------------------------------------------------------------
(* The inputs of the application *)

Questions == {<<"q1">>, <<"q2">>}

\* the backend's outcomes for the keyword request
KeywordOutcomes == {BackendText(<<"k1", ",", " ", "k2">>), BackendRaise}

\* the backend's outcomes for one summary request
SummaryOutcomes == {BackendText(<<"s">>), BackendRaise, BackendEscape}

FullReview == <<"INTRODUCTION", "TRAVAUX EXISTANTS", "LIMITATIONS", "PERSPECTIVES">>
PartialReview == <<"INTRODUCTION", "TRAVAUX EXISTANTS", "LIMITATIONS">>

\* the backend's outcomes for the review request
ReviewOutcomes ==
    {BackendText(FullReview), BackendText(PartialReview), BackendText(<<" ">>),
     BackendText(<<>>), BackendParts(<<<<"INTRODUCTION">>, <<"PERSPECTIVES">>>>),
     BackendNoAttr, BackendRaise, BackendEscape}

\* the rankings of the search service, most relevant first
Rankings ==
    {<<Paper("A", Some(<<"a">>), NoDict, NoDict, Some(<<"urlA">>)),
       Paper("T", Some(<<" ">>), Dict(Some(<<"t">>)), NoDict, None),
       Paper("U", None, NoDict, NoDict, Some(<<"urlU">>))>>,
     <<Paper("U", None, NoDict, NoDict, Some(<<"urlU">>)),
       Paper("T", Some(<<" ">>), Dict(Some(<<"t">>)), NoDict, None),
       Paper("A", Some(<<"a">>), NoDict, NoDict, Some(<<"urlA">>))>>}

\* a search result: the first publications of a ranking
ResultLists == {Take(r, n) : r \in Rankings, n \in 1..MaxPapers}

SearchOutcomes == SearchFailures \cup {SearchNoData} \cup {SearchOk(l) : l \in ResultLists}

Idle == [done |-> FALSE]

----------------------------------------------------------------------------
(* The runs of main *)

\* a run with no button pressed (any other widget changed)
Refresh ==
    \E res \in {ShowResults(papers, question, search_done, unchecked, FALSE, BackendNoAttr)} :
        /\ ui' = Ui(search_done, None, {}, res)
        /\ unchecked' = Checkboxes(ui.display, unchecked, res.display, Len(papers))
        /\ log' = res.log
        /\ UNCHANGED <<papers, question, search_done, searched, unitVars>>

\* the checkbox select_i is toggled
ToggleSelect(i) ==
    /\ ui.display
    /\ i \in 0..(Len(papers) - 1)
    /\ \E unch \in {IF i \in unchecked THEN unchecked \ {i} ELSE unchecked \cup {i}} :
       \E res \in {ShowResults(papers, question, search_done, unch, FALSE, BackendNoAttr)} :
           /\ ui' = Ui(search_done, None, {}, res)
           /\ unchecked' = Checkboxes(TRUE, unch, res.display, Len(papers))
           /\ log' = res.log
    /\ UNCHANGED <<papers, question, search_done, searched, unitVars>>

\* "Nouvelle recherche": the state is reset and the script runs again
ClickNewSearch ==
    /\ ui.newSearch
    /\ papers' = <<>>
    /\ search_done' = FALSE
    /\ \E res \in {ShowResults(<<>>, question, FALSE, {}, FALSE, BackendNoAttr)} :
           /\ ui' = Ui(FALSE, None, {}, res)
           /\ unchecked' = Checkboxes(ui.display, unchecked, res.display, 0)
           /\ log' = res.log
    /\ UNCHANGED <<question, searched, unitVars>>

\* a run of the search that stores the result before testing it
ClickSearchStoresFirst(q, ko, s, outs) ==
    IF q = <<>>
    THEN Refresh
    ELSE
    \E keywords \in {ExtractKeywords(q, LlmCall(ko))}, found \in {SearchPapers(s)} :
    \E head \in {<<LlmEvent(ko), Event("extract_keywords", Len(keywords), None),
                   Event("search_papers", Len(found.papers),
                         Some(Join(keywords, <<" ">>)))>>},
       msgs \in {KeywordMessages(ko) \cup found.messages} :
        /\ question' = q
        /\ IF found.papers = <<>>
           THEN /\ ui' = Ui(search_done, Some(keywords), msgs \cup {"err_no_papers"}, Hidden)
                /\ unchecked' = {}
                /\ log' = head
                /\ papers' = found.papers
                /\ searched' = q
                /\ UNCHANGED search_done
           ELSE \E loop \in {SummarizeFrom(found.papers, outs, 1)} :
                \E res \in {ShowResults(loop.papers, q, TRUE, unchecked, FALSE,
                                        BackendNoAttr)} :
                    /\ papers' = loop.papers
                    /\ search_done' = TRUE
                    /\ searched' = q
                    /\ ui' = Ui(search_done, Some(keywords),
                                msgs \cup {"ok_found"} \cup loop.messages, res)
                    /\ unchecked' = Checkboxes(ui.display, unchecked, res.display,
                                               Len(loop.papers))
                    /\ log' = head \o loop.log
                                   \o <<Event("store", Len(loop.papers), None)>>
                                   \o res.log
        /\ UNCHANGED unitVars

\* "Rechercher" with the question q typed; ko, s, outs: what the backend
\* answers to the keyword request, what the search request does, and what the
\* backend answers to each summary request
ClickSearch(q, ko, s, outs) ==
    IF q = <<>>
    THEN Refresh                                       \* search_button and question
    ELSE
    \E keywords \in {ExtractKeywords(q, LlmCall(ko))}, found \in {SearchPapers(s)} :
    \E head \in {<<LlmEvent(ko), Event("extract_keywords", Len(keywords), None),
                   Event("search_papers", Len(found.papers),
                         Some(Join(keywords, <<" ">>)))>>},
       msgs \in {KeywordMessages(ko) \cup found.messages} :
        /\ question' = q
        /\ IF found.papers = <<>>
           THEN \* if not papers: return
                /\ ui' = Ui(search_done, Some(keywords), msgs \cup {"err_no_papers"}, Hidden)
                /\ unchecked' = {}
                /\ log' = head
                /\ UNCHANGED <<papers, search_done, searched>>
           ELSE \E loop \in {SummarizeFrom(found.papers, outs, 1)} :
                \E res \in {ShowResults(loop.papers, q, TRUE, unchecked, FALSE,
                                        BackendNoAttr)} :
                    /\ papers' = loop.papers
                    /\ search_done' = TRUE
                    /\ searched' = q
                    /\ ui' = Ui(search_done, Some(keywords),
                                msgs \cup {"ok_found"} \cup loop.messages, res)
                    /\ unchecked' = Checkboxes(ui.display, unchecked, res.display,
                                               Len(loop.papers))
                    /\ log' = head \o loop.log
                                   \o <<Event("store", Len(loop.papers), None)>>
                                   \o res.log
        /\ UNCHANGED unitVars

\* the button of step 3; o: what the backend answers to the review request
ClickGenerate(o) ==
    /\ ui.genBtn = "enabled"
    /\ \E res \in {ShowResults(papers, question, search_done, unchecked, TRUE, o)} :
           /\ ui' = Ui(search_done, None, {}, res)
           /\ unchecked' = Checkboxes(ui.display, unchecked, res.display, Len(papers))
           /\ log' = res.log
    /\ UNCHANGED <<papers, question, search_done, searched, unitVars>>

InitApp ==
    /\ papers = <<>>
    /\ question = <<>>
    /\ search_done = FALSE
    /\ searched = <<>>
    /\ unchecked = {}
    /\ ui = Ui(FALSE, None, {}, Hidden)
    /\ log = <<>>

Init ==
    /\ InitApp
    /\ fn = "main"
    /\ arg = Idle
    /\ ret = Idle

Next ==
    \/ Refresh
    \/ \E i \in 0..(MaxPapers - 1) : ToggleSelect(i)
    \/ ClickNewSearch
    \/ \E q \in Questions, ko \in KeywordOutcomes, s \in SearchOutcomes :
          \E outs \in [Prompted(SearchPapers(s).papers) -> SummaryOutcomes] :
             ClickSearch(q, ko, s, outs)
    \/ ClickSearch(<<>>, BackendNoAttr, SearchNoData, <<>>)
    \/ \E o \in ReviewOutcomes : ClickGenerate(o)

Spec == Init /\ [][Next]_vars

----------------------------------------------------------------------------
(* The functions on their own: the inputs are drawn by the initial state   *)
(* and one step applies the function                                       *)

Done(v) == [done |-> TRUE, value |-> v]

\* extract_keywords ---------------------------------------------------------

UnitQuestions == {<<>>, <<"q">>, <<" ", "q", ",", " ">>}

KeywordBackends ==
    {BackendText(t) : t \in SeqsUpTo({"a", " ", ","}, MaxKwLen)}
    \cup {BackendParts(<<<<"a">>, <<",">>, <<"b">>>>), BackendParts(<<>>),
          BackendNoAttr, BackendRaise, BackendEscape}

InitKeywords ==
    /\ InitApp
    /\ fn = "extract_keywords"
    /\ arg \in [q : UnitQuestions, o : KeywordBackends]
    /\ ret = Idle

ApplyExtractKeywords ==
    /\ fn = "extract_keywords"
    /\ ~ret.done
    /\ ret' = Done(ExtractKeywords(arg.q, LlmCall(arg.o)))
    /\ UNCHANGED <<appVars, fn, arg>>

SpecKeywords == InitKeywords /\ [][ApplyExtractKeywords]_vars

\* summarize_paper ----------------------------------------------------------

OptTexts(S) == {None} \cup {Some(t) : t \in S}

UnitAbstracts == OptTexts(SeqsUpTo({"a", " "}, MaxFieldLen))
UnitTldrs == {NoDict} \cup {Dict(t) : t \in OptTexts({<<>>, <<" ">>, <<"t">>})}
UnitPdfs == {NoDict} \cup {Dict(t) : t \in OptTexts({<<>>, <<"pdf">>})}
UnitUrls == OptTexts({<<>>, <<"url">>})

UnitPapers ==
    {Paper("P", a, t, oa, u) :
        a \in UnitAbstracts, t \in UnitTldrs, oa \in UnitPdfs, u \in UnitUrls}

SummaryBackends ==
    {BackendText(t) : t \in SeqsUpTo({"g", " "}, MaxFieldLen)}
    \cup {BackendParts(<<<<"g">>, <<"h">>>>), BackendParts(<<>>),
          BackendNoAttr, BackendRaise, BackendEscape}

InitSummarize ==
    /\ InitApp
    /\ fn = "summarize_paper"
    /\ arg \in [paper : UnitPapers, o : SummaryBackends]
    /\ ret = Idle

ApplySummarizePaper ==
    /\ fn = "summarize_paper"
    /\ ~ret.done
    /\ ret' = Done(SummarizePaper(arg.paper, arg.o))
    /\ UNCHANGED <<appVars, fn, arg>>

SpecSummarize == InitSummarize /\ [][ApplySummarizePaper]_vars

\* fetch_paper_content ------------------------------------------------------

UnitIds == OptTexts({<<>>, <<"P">>})

FetchPapers ==
    {[Paper("P", None, NoDict, NoDict, u) EXCEPT !.paperId = id] :
        id \in UnitIds, u \in UnitUrls}

DetailOutcomes ==
    {DetailsOk(t, oa) : t \in UnitTldrs, oa \in UnitPdfs} \cup {DetailsEmpty, DetailsError}

InitFetch ==
    /\ InitApp
    /\ fn = "fetch_paper_content"
    /\ arg \in [paper : FetchPapers, d : DetailOutcomes]
    /\ ret = Idle

ApplyFetchPaperContent ==
    /\ fn = "fetch_paper_content"
    /\ ~ret.done
    /\ ret' = Done(FetchPaperContent(arg.paper, arg.d))
    /\ UNCHANGED <<appVars, fn, arg>>

SpecFetch == InitFetch /\ [][ApplyFetchPaperContent]_vars

\* generate_full_review -----------------------------------------------------

\* curated lists: search results summarized with a failing backend
ReviewLists ==
    {SummarizeFrom(l, [i \in Prompted(l) |-> BackendRaise], 1).papers : l \in ResultLists}

ReviewBackends ==
    ReviewOutcomes \cup {BackendText(t) : t \in SeqsUpTo({"INTRODUCTION", " "}, MaxFieldLen)}
    \cup {BackendParts(<<>>), BackendParts(<<<<" ">>, <<" ">>>>)}

InitReview ==
    /\ InitApp
    /\ fn = "generate_full_review"
    /\ arg \in [list : ReviewLists, q : Questions, o : ReviewBackends]
    /\ ret = Idle

ApplyGenerateFullReview ==
    /\ fn = "generate_full_review"
    /\ ~ret.done
    /\ ret' = Done(GenerateFullReview(arg.list, arg.q, arg.o))
    /\ UNCHANGED <<appVars, fn, arg>>

SpecReview == InitReview /\ [][ApplyGenerateFullReview]_vars

----------------------------------------------------------------------------
(* Properties *)

\* a text that is empty or holds only whitespace
Blank(t) == \A i \in 1..Len(t) : t[i] = " "

\* the text the backend outcome o stands for, parts joined in order
RECURSIVE Joined(_)
Joined(parts) == IF parts = <<>> THEN <<>> ELSE parts[1] \o Joined(Tail(parts))
Produced(o) ==
    IF o.kind = "text" THEN o.text
    ELSE IF o.kind = "parts" THEN Joined(o.parts)
    ELSE <<>>

\* C1 (SpecKeywords): extract_keywords returns between 1 and 5 strings for
\* every question and every outcome of the generative call; when the call
\* fails or the response is empty or whitespace-only, the result is exactly
\* the one-element sequence holding the question unmodified.
C1_KeywordsOneToFive ==
    (fn = "extract_keywords" /\ ret.done) =>
        /\ Len(ret.value) >= 1
        /\ Len(ret.value) <= 5
        /\ (arg.o.kind \in {"escape", "raise", "noattr"} \/ Blank(Produced(arg.o)))
              => ret.value = <<arg.q>>

\* C1 witness: a response of more than five comma-separated entries was cut
\* to five keywords.
C1_Witness ==
    /\ fn = "extract_keywords" /\ ret.done
    /\ arg.o.kind = "text"
    /\ Cardinality({i \in 1..Len(arg.o.text) : arg.o.text[i] = ","}) >= 5
    /\ ~Blank(arg.o.text)
    /\ Len(ret.value) = 5

\* C2 (SpecSummarize): for every publication and every text, empty or
\* whitespace-only outcome of the generative call, summarize_paper returns
\* a non-empty text.
C2_SummaryNonEmpty ==
    (fn = "summarize_paper" /\ ret.done /\ arg.o.kind # "escape") =>
        /\ ~ret.value.raised
        /\ ret.value.text # <<>>

\* C2 witness: the abstract is whitespace-only, the TLDR has a text and the
\* generation gave nothing; a text was returned all the same.
C2_Witness ==
    /\ fn = "summarize_paper" /\ ret.done
    /\ arg.paper.abstract = Some(<<" ">>)
    /\ arg.paper.tldr = Dict(Some(<<"t">>))
    /\ arg.o = BackendText(<<" ">>)
    /\ ret.value.text # <<>>

\* the signals of a publication, as the specification names them
AbstractPresent(paper) ==
    paper.abstract.some /\ \E i \in 1..Len(paper.abstract.val) : paper.abstract.val[i] # " "
AutoSummaryPresent(paper) ==
    paper.tldr.some /\ paper.tldr.text.some /\ Len(paper.tldr.text.val) > 0
OpenAccessPresent(paper) ==
    paper.openAccessPdf.some /\ paper.openAccessPdf.text.some
        /\ Len(paper.openAccessPdf.text.val) > 0
CanonicalUrlPresent(paper) == paper.url.some /\ Len(paper.url.val) > 0

\* the first available signal, in the specification's order
Tier(paper) ==
    IF AbstractPresent(paper) THEN 1
    ELSE IF AutoSummaryPresent(paper) THEN 2
    ELSE IF OpenAccessPresent(paper) THEN 3
    ELSE IF CanonicalUrlPresent(paper) THEN 4
    ELSE 5

\* the branch a result of summarize_paper shows: the prompt sent, else the
\* fixed text the result starts with
BranchTaken(r) ==
    IF r.prompts # <<>>
    THEN IF r.prompts[1].kind = "summarize" THEN 1 ELSE 2
    ELSE IF r.text # <<>> /\ <<r.text[1]>> = MsgPdfAvailable THEN 3
    ELSE IF r.text # <<>> /\ <<r.text[1]>> = MsgSeeArticle THEN 4
    ELSE 5

\* C4 (SpecSummarize): summarize_paper takes the branch of the first
\* available signal in the order abstract, auto-summary, open-access link,
\* canonical URL, unavailable marker; with only a canonical URL the result is
\* the "see full article" text followed by exactly that URL.
C4_BranchOrder ==
    (fn = "summarize_paper" /\ ret.done) =>
        /\ BranchTaken(ret.value) = Tier(arg.paper)
        /\ Tier(arg.paper) = 4 => ret.value.text = MsgSeeArticle \o arg.paper.url.val
        /\ Tier(arg.paper) = 5 => ret.value.text = MsgNoSummary

\* C4 witness: an empty abstract with a TLDR text took branch 2.
C4_Witness ==
    /\ fn = "summarize_paper" /\ ret.done
    /\ arg.paper.abstract = Some(<<>>)
    /\ arg.paper.tldr = Dict(Some(<<"t">>))
    /\ arg.paper.openAccessPdf = Dict(Some(<<"pdf">>))
    /\ BranchTaken(ret.value) = 2

\* C5 (SpecSummarize): with neither a non-whitespace abstract nor an
\* auto-summary text, summarize_paper sends no prompt to the generative model
\* and returns only the open-access reference, else the URL reference, else
\* the unavailable marker.
C5_LinkOnly ==
    (fn = "summarize_paper" /\ ret.done
        /\ ~AbstractPresent(arg.paper) /\ ~AutoSummaryPresent(arg.paper)) =>
        /\ ret.value.prompts = <<>>
        /\ ~ret.value.raised
        /\ ret.value.text =
              IF OpenAccessPresent(arg.paper)
              THEN MsgPdfAvailable \o arg.paper.openAccessPdf.text.val
              ELSE IF CanonicalUrlPresent(arg.paper)
              THEN MsgSeeArticle \o arg.paper.url.val
              ELSE MsgNoSummary

\* C5 witness: a publication with an open-access link only, while the
\* backend had a text to give.
C5_Witness ==
    /\ fn = "summarize_paper" /\ ret.done
    /\ ~AbstractPresent(arg.paper) /\ ~AutoSummaryPresent(arg.paper)
    /\ OpenAccessPresent(arg.paper)
    /\ arg.o = BackendText(<<"g">>)
    /\ ret.value.prompts = <<>>

\* the details carry a TLDR text, an open-access URL
DetailTldr(d) == d.tldr.some /\ d.tldr.text.some /\ Len(d.tldr.text.val) > 0
DetailPdf(d) ==
    d.openAccessPdf.some /\ d.openAccessPdf.text.some /\ Len(d.openAccessPdf.text.val) > 0

\* C3 as claimed (SpecFetch): fetch_paper_content always returns a
\* descriptive text, a placeholder when the identifier is missing, the detail
\* lookup fails or no source is available, never an absent value.
C3_AlwaysText ==
    (fn = "fetch_paper_content" /\ ret.done) =>
        ret.value.some /\ ret.value.val # <<>>

\* C3 as amended (SpecFetch): fetch_paper_content returns a text exactly when
\* the identifier is present, the detail lookup succeeds and the details
\* carry a TLDR text or an open-access URL (the TLDR text, else the "PDF
\* disponible" reference); in every other case it returns None.
C3_TextOrNone ==
    (fn = "fetch_paper_content" /\ ret.done) =>
        IF arg.paper.paperId.some /\ Len(arg.paper.paperId.val) > 0
           /\ arg.d.kind = "ok" /\ (DetailTldr(arg.d) \/ DetailPdf(arg.d))
        THEN ret.value =
                Some(IF DetailTldr(arg.d) THEN arg.d.tldr.text.val
                     ELSE MsgPdfAt \o arg.d.openAccessPdf.text.val)
        ELSE ret.value = None

\* C3 witness: the detail lookup failed for a publication with an identifier
\* and None was returned.
C3_Witness ==
    /\ fn = "fetch_paper_content" /\ ret.done
    /\ arg.paper.paperId = Some(<<"P">>)
    /\ arg.d.kind = "error"
    /\ ret.value = None

\* C8 (SpecReview): for every non-empty curated list, generate_full_review
\* returns the generated text verbatim when it is not whitespace-only, and
\* the fixed failure message when generation fails or gives an empty or
\* whitespace-only text; the text returned is never empty or whitespace-only.
C8_ReviewOrFailureMessage ==
    (fn = "generate_full_review" /\ ret.done /\ arg.o.kind # "escape") =>
        /\ ~ret.value.raised
        /\ ~Blank(Produced(arg.o)) => ret.value.text = Produced(arg.o)
        /\ (arg.o.kind \in {"raise", "noattr"} \/ Blank(Produced(arg.o)))
              => ret.value.text = ErrGeneration
        /\ ~Blank(ret.value.text)

\* C8 witness: the backend failed on the review request for a curated list
\* and the fixed failure message was returned.
C8_Witness ==
    /\ fn = "generate_full_review" /\ ret.done
    /\ Len(arg.list) >= 1
    /\ arg.o = BackendRaise
    /\ ret.value.text = ErrGeneration

\* the last run showed a failure of the search request
SearchFailed(u) == u.messages \cap {"err_rate_limit", "err_api"} # {}

\* C6 (Spec): a run whose search request fails (HTTP 429, another HTTP
\* error, a transport error) gets no paper from search_papers and halts: it
\* makes no summarization call, stores nothing, leaves the stored papers and
\* the search-done flag as they were and shows no list.
C6_SearchFailureHalts ==
    [][SearchFailed(ui') =>
          /\ papers' = papers
          /\ search_done' = search_done
          /\ \E i \in 1..Len(log') : log'[i].op = "search_papers" /\ log'[i].n = 0
          /\ \A i \in 1..Len(log') :
                log'[i].op \notin {"summarize_paper", "store", "sleep",
                                   "generate_full_review"}
          /\ ~ui'.display]_vars

\* C6 witness: after a successful search, a search answered by HTTP 429.
C6_Witness ==
    /\ "err_rate_limit" \in ui.messages
    /\ search_done
    /\ papers # <<>>
    /\ \E i \in 1..Len(log) : log[i].op = "search_papers" /\ log[i].n = 0

\* no checkbox of the list is ticked
NoneSelected == \A i \in 0..(Len(papers) - 1) : i \in unchecked

\* C7 (Spec): generate_full_review is never called with an empty selection;
\* while nothing is selected the button of step 3 is disabled and no
\* synthesis is made.
C7_NoEmptySynthesis ==
    /\ \A i \in 1..Len(log) : log[i].op = "generate_full_review" => log[i].n >= 1
    /\ (ui.display /\ NoneSelected) =>
          /\ ui.genBtn = "disabled"
          /\ \A i \in 1..Len(log) : log[i].op # "generate_full_review"

\* C7 witness: the list is shown and every checkbox has been unticked.
C7_Witness ==
    /\ ui.display
    /\ Len(papers) = 2
    /\ NoneSelected
    /\ ui.genBtn = "disabled"

\* C9 as claimed (Spec): when generate_full_review returns the fixed failure
\* message, main reports no success and shows the message neither as the
\* review nor as the download.
C9_FailureNotShownAsReview ==
    \A i \in 1..Len(log) :
        (log[i].op = "generate_full_review" /\ log[i].out = Some(ErrGeneration)) =>
            /\ "ok_review" \notin ui.messages
            /\ ui.review = None
            /\ ui.download = None

HasAllSections(t) == \A sec \in Sections : \E i \in 1..Len(t) : t[i] = sec

\* C10 as claimed (Spec): a generated review text that lacks one of the
\* four sections is reported as a failure, never returned or shown as a
\* successful review.
C10_MissingSectionIsFailure ==
    \A i \in 1..(Len(log) - 1) :
        (/\ log[i].op = "llm.generate" /\ log[i + 1].op = "generate_full_review"
         /\ log[i].out.some /\ ~Blank(log[i].out.val)
         /\ ~HasAllSections(log[i].out.val)) =>
            /\ log[i + 1].out # log[i].out
            /\ "ok_review" \notin ui.messages
            /\ ui.review = None

\* C10 as amended (Spec): a generated review text is a failure only when it
\* is empty or whitespace-only; any other text, with or without the four
\* sections, is returned verbatim and shown as a successful review and as
\* the download.
C10_AnyTextIsShown ==
    \A i \in 1..(Len(log) - 1) :
        (/\ log[i].op = "llm.generate" /\ log[i + 1].op = "generate_full_review"
         /\ log[i].out.some /\ ~Blank(log[i].out.val)) =>
            /\ log[i + 1].out = log[i].out
            /\ "ok_review" \in ui.messages
            /\ "err_review_failed" \notin ui.messages
            /\ ui.review = log[i].out
            /\ ui.download = log[i].out

\* C10 witness: a review without the section PERSPECTIVES is shown as a
\* success.
C10_Witness ==
    /\ ui.review = Some(PartialReview)
    /\ "ok_review" \in ui.messages
    /\ \E i \in 1..Len(log) : log[i].op = "generate_full_review"

----------------------------------------------------------------------------
(* The summarization stage of a search (main, lines 532-545) *)

\* the calls of the last run to op, in order
Calls(op) == SelectSeq(log, LAMBDA e : e.op = op)

\* the number of publications the search of the last run returned
Found == IF Calls("search_papers") = <<>> THEN 0 ELSE Calls("search_papers")[1].n

\* the last run completed the summarization stage
StageCompleted == Calls("store") # <<>>

\* C11: the summarization stage never aborts the batch: after a search that
\* returned n >= 1 publications, whatever the backend did for each of them
\* (text, failure, raised error), summarize_paper was called once for each
\* publication 1..n in order, the stage completed and stored the n
\* publications, and every stored publication carries a non-empty summary.
C11_BatchNeverAborts ==
    /\ \A p \in 1..Len(papers) : papers[p].summary.some /\ papers[p].summary.val # <<>>
    /\ Found > 0 =>
          /\ Len(Calls("summarize_paper")) = Found
          /\ \A k \in 1..Len(Calls("summarize_paper")) : Calls("summarize_paper")[k].n = k
          /\ StageCompleted
          /\ Len(papers) = Found

\* a search returned two publications, the first summarization raised an
\* error, the second was still attempted and succeeded, and both were stored
C11_Witness ==
    /\ Found = 2
    /\ StageCompleted
    /\ Len(Calls("summarize_paper")) = 2
    /\ ~Calls("summarize_paper")[1].out.some
    /\ Calls("summarize_paper")[2].out.some
    /\ Len(papers) = 2
    /\ papers[1].summary.val = MsgSummaryError \o papers[1].url.val

----------------------------------------------------------------------------
(* The stored results across failures (main, lines 513-545 and 598-628) *)

\* the run that rendered u stopped at "Aucun article trouve": the search
\* failed or returned nothing
SearchHalted(u) == "err_no_papers" \in u.messages

\* the run that rendered u asked for the review and did not get one
SynthesisFailed(u) ==
    u.messages \cap {"err_review_failed", "err_generation_exc", "err_generation"} # {}

\* C12: a run of main in which the search fails (or finds nothing), or in
\* which the synthesis fails, leaves the stored publication list, summaries
\* included, and the search-done flag as they were; synthesis can then be
\* retried without searching again: after a failed synthesis the button is
\* rendered enabled, and after a failed search over stored results the next
\* run renders the stored list with the button enabled.
C12_FailurePreservesResults ==
    [][ (SearchHalted(ui') \/ SynthesisFailed(ui')) =>
          /\ papers' = papers
          /\ search_done' = search_done
          /\ SynthesisFailed(ui') => ui'.display /\ ui'.genBtn = "enabled"
          /\ (SearchHalted(ui') /\ search_done /\ papers # <<>>) =>
                ShowResults(papers', question', search_done', unchecked', FALSE,
                            BackendNoAttr).genBtn = "enabled"
      ]_vars

\* a search has just failed while the two summarized publications of an
\* earlier search are stored
C12_Witness ==
    /\ SearchHalted(ui)
    /\ SearchFailed(ui)
    /\ search_done
    /\ Len(papers) = 2
    /\ \A p \in 1..2 : papers[p].summary.some

----------------------------------------------------------------------------
(* The pauses of the summarization stage (main, lines 533-542) *)

\* the pauses and the summarization calls of the last run, in order
Timeline == SelectSeq(log, LAMBDA e : e.op \in {"sleep", "summarize_paper"})

\* C13: in the summarization stage over n publications the calls to
\* summarize_paper and the pauses alternate, starting and ending with a call:
\* no pause precedes the first call, exactly one pause separates two
\* consecutive calls, and there are exactly n - 1 pauses, whether the calls
\* return or raise; a run without summarization stage pauses never.
C13_DelayBetweenCalls ==
    /\ Found = 0 => Timeline = <<>>
    /\ Found > 0 =>
          /\ Len(Timeline) = 2 * Found - 1
          /\ \A k \in 1..Len(Timeline) :
                Timeline[k].op = IF k % 2 = 1 THEN "summarize_paper" ELSE "sleep"
          /\ Len(Calls("sleep")) = Found - 1

\* a stage over the most publications a search returns, in which a call
\* raised an error and the pauses nevertheless took place
C13_Witness ==
    /\ Found = MaxPapers
    /\ Len(Calls("sleep")) = MaxPapers - 1
    /\ \E k \in 1..Len(Calls("summarize_paper")) : ~Calls("summarize_paper")[k].out.some
    /\ Timeline[2].op = "sleep"

----------------------------------------------------------------------------
(* The question that goes with the stored results                          *)
(* (main, lines 513-527, 544-552, 604-607 and 504-508)                     *)

\* C14: whenever the stored publication list is rendered (and, when the
\* button was pressed in that run, passed to generate_full_review), the
\* question rendered and passed with it, st.session_state.question, is the
\* question of the search that stored the list.
C14_QuestionMatchesResults ==
    (ui.display /\ papers # <<>>) => ui.shown = Some(searched)

====
